---- MODULE Spec2Model ----
(***************************************************************************)
(* Search sessions: the HTTP handlers of routes.py over the tables of      *)
(* models.py, through the data-access layer of dal.py.                     *)
(*                                                                         *)
(* Tables are sequences; a row's primary key is its index (autoincrement). *)
(* An Optional value is a sequence of length at most one: <<>> is None.    *)
(***************************************************************************)
EXTENDS Integers, Sequences, FiniteSets, TLC

\* ------------------------------------------------------------------ bounds
MaxSessions == 2
MaxPropositions == 2
NumClients == 2
MaxRelEvents == 3

\* ------------------------------------------------------------ other tables
\* rows of the dispatchers table (app.dispatchers), read only here; primary keys
\* start at 1
Dispatchers == {1, 2}

\* locations of a FiltersRequest: strings that are only compared are naturals
LocA == [address |-> 1, radius |-> 10, scope |-> 1]
LocB == [address |-> 2, radius |-> 10, scope |-> 1]
\* the address and scope of LocB with another radius
LocC == [address |-> 2, radius |-> 20, scope |-> 1]

VARIABLES
    sessions,      \* search_sessions rows
    propositions,  \* propositions rows: the internal_id of each
    rels,          \* search_sessions_propositions rows
    events,        \* events rows: the name of each
    rel_events,    \* search_sessions_propositions_events rows
    last,          \* the last request served and its response
    reqs           \* create requests in flight (the interleaved specification)

db == <<sessions, propositions, rels, events, rel_events>>
vars == <<sessions, propositions, rels, events, rel_events, last, reqs>>

\* ------------------------------------------------------------ sequences
Range(s) == { s[i] : i \in DOMAIN s }

RECURSIVE SeqOfSet(_)
\* the elements of a finite set of naturals in ascending order (row order)
SeqOfSet(S) ==
    IF S = {} THEN <<>>
    ELSE LET m == CHOOSE x \in S : \A y \in S : x <= y
         IN <<m>> \o SeqOfSet(S \ {m})

\* ------------------------------------------------------------ routes.py
\* the sort key of a location: (d["address"], d["scope"])
KeyLess(x, y) ==
    \/ x.address < y.address
    \/ x.address = y.address /\ x.scope < y.scope

RECURSIVE InsertSorted(_, _)
InsertSorted(x, s) ==
    IF s = <<>> THEN <<x>>
    ELSE IF KeyLess(x, Head(s)) THEN <<x>> \o s
    ELSE <<Head(s)>> \o InsertSorted(x, Tail(s))

RECURSIVE sorted(_)
\* Python's sorted(): stable, ascending by key
sorted(s) ==
    IF s = <<>> THEN <<>>
    ELSE InsertSorted(s[Len(s)], sorted(SubSeq(s, 1, Len(s) - 1)))

\* str() of the filters dict with its locations sorted
filters_data_to_string(input_data) ==
    [locations |-> sorted(input_data.filters.locations)]


\* ------------------------------------------------------ app.db.dal.BaseDAL
\* check_if_exists(entity_id, entity=Dispatcher): a row with that id exists
check_if_exists(entity_id) == entity_id \in Dispatchers

\* get(search_session_id), as a truth value: the row or None
get(search_session_id) == search_session_id \in DOMAIN sessions

\* update(search_session, data): assign every key of data to the row
update(search_session_id, data) ==
    [sessions EXCEPT ![search_session_id] =
        [@ EXCEPT !.is_successful = data.is_successful,
                  !.reason = data.reason,
                  !.is_closed = data.is_closed]]

\* update_by_id(entity_id, data={"extra_load": ...})
update_by_id(entity_id, data) ==
    [sessions EXCEPT ![entity_id].extra_load = data.extra_load]

\* get_by_parameter_values("internal_id", [v], entity=Proposition): the ids of the
\* rows that match; single=True hands back one of them (no ORDER BY)
propositions_by_internal_id(v) ==
    { p \in DOMAIN propositions : propositions[p] = v }

\* get_by_parameter_values("name", [name], entity=Event, single=True): <<id>> or <<>>
event_by_name(name) ==
    LET ids == { e \in DOMAIN events : events[e] = name }
    IN IF ids = {} THEN <<>> ELSE <<CHOOSE e \in ids : \A f \in ids : e <= f>>

\* get_by_list_of_parameters(["search_sessions_propositions_id", "event_id"],
\* [i, event_id], entity=SearchSessionsPropositionsEvents): the ids of the rows
\* with both values
get_by_list_of_parameters(i, event_id) ==
    SeqOfSet({ x \in DOMAIN rel_events :
                 /\ rel_events[x].search_sessions_propositions_id = i
                 /\ rel_events[x].event_id = event_id })

\* Proposition.from_list(data): one Proposition per dict of data, in order
from_list(data) == data

\* ------------------------------------------------------------------ dal.py
\* the row dal.create() adds; the columns the payload does not set take their
\* defaults (is_successful, extra_load: False; reason: NULL)
new_search_session(data) ==
    [dispatcher_id  |-> data.dispatcher_id,
     filters_string |-> data.filters_string,
     is_closed      |-> data.is_closed,
     is_successful  |-> FALSE,
     reason         |-> <<>>,
     extra_load     |-> FALSE]

dal_create(data) == Append(sessions, new_search_session(data))

exist(session_id) == session_id \in DOMAIN sessions

\* is_session_closed selecting the wrong column
is_session_closed_wrong_column(session_id) == sessions[session_id].is_successful

is_session_closed(session_id) == sessions[session_id].is_closed

\* get_by_filters without the where clause on dispatcher_id
get_by_filters_any_dispatcher(dispatcher_id, filters_data) ==
    IF dispatcher_id # 0
    THEN SeqOfSet({ s \in DOMAIN sessions :
                      sessions[s].filters_string = filters_data })
    ELSE <<>>

\* the ids of the rows selected, in row order; None and [] are both <<>> (the
\* callers only test the result's truth). filters_data is the str() of a dict,
\* never empty, so `if filters_data` is always taken.
get_by_filters(dispatcher_id, filters_data) ==
    IF dispatcher_id # 0
    THEN SeqOfSet({ s \in DOMAIN sessions :
                      /\ sessions[s].dispatcher_id = dispatcher_id
                      /\ sessions[s].filters_string = filters_data })
    ELSE <<>>

\* p.search_sessions: the sessions a proposition row is linked to
search_sessions_of(p) ==
    { rels[r].search_session_id : r \in { x \in DOMAIN rels : rels[x].proposition_id = p } }

\* select(Proposition).where(Proposition.internal_id.in_(propositions_internal_ids))
existed_propositions(propositions_internal_ids) ==
    SeqOfSet({ p \in DOMAIN propositions :
                 propositions[p] \in Range(propositions_internal_ids) })

\* the payload's propositions whose internal_id has no row yet (one entry per
\* payload entry: the list is not deduplicated)
new_propositions(payload_propositions, existed) ==
    SelectSeq(payload_propositions,
              LAMBDA i : i \notin { propositions[p] : p \in Range(existed) })

\* the existing propositions appended without the test on p.search_sessions
existed_to_link_unchecked(search_session_id, existed) == existed

\* the existing propositions appended to search_session.propositions: those not
\* yet related to the session
existed_to_link(search_session_id, existed) ==
    SelectSeq(existed, LAMBDA p : search_session_id \notin search_sessions_of(p))

link_rows(search_session_id, proposition_ids) ==
    [k \in 1..Len(proposition_ids) |->
        [search_session_id |-> search_session_id,
         proposition_id    |-> proposition_ids[k]]]


\* ---------------------------------------------------------------- routes.py
\* Python truth of an int | None
Truthy(opt) == opt # <<>> /\ opt[1] # 0

\* what a handler answers: error is "" for a normal return, else the exception
\* raised, with its detail; result is the id of the session returned
Ok(result) == [error |-> "", detail |-> "", result |-> result]
Raise(error, detail) == [error |-> error, detail |-> detail, result |-> 0]

\* the response is recorded with the handler and the path parameter it served
Respond(op, sid, response) ==
    last' = [op |-> op, sid |-> sid, error |-> response.error,
             detail |-> response.detail, result |-> response.result]

\* an exception leaves the transaction of get_search_sessions_dal uncommitted
Reject(op, sid, response) ==
    /\ Respond(op, sid, response)
    /\ UNCHANGED db

\* the generator with its condition inverted (if s.is_closed)
closed_search_sessions(search_sessions) ==
    SelectSeq(search_sessions, LAMBDA s : sessions[s].is_closed)

\* the generator without its condition
all_search_sessions(search_sessions) == search_sessions

\* (s for s in search_sessions if not s.is_closed): create takes the first of
\* them (next(..., None)), check the last (its loop overwrites)
active_search_sessions(search_sessions) ==
    SelectSeq(search_sessions, LAMBDA s : ~sessions[s].is_closed)

\* check: what it raises or returns
check_response(payload) ==
    IF ~check_if_exists(payload.dispatcher_id)
    THEN Raise("EntityDoesNotExist", "Dispatcher does not exist.")
    ELSE LET search_sessions == get_by_filters(payload.dispatcher_id,
                                               filters_data_to_string(payload))
             active == active_search_sessions(search_sessions)
         IN IF active = <<>>
            THEN Raise("EntityDoesNotExist", "Session does not exist.")
            ELSE Ok(active[Len(active)])

\* check: POST /search_sessions/check/
check(payload) ==
    /\ Respond("check", 0, check_response(payload))
    /\ UNCHANGED <<db, reqs>>

\* input_data of create: payload.dict() with filters_string added
create_input_data(payload) ==
    [dispatcher_id  |-> payload.dispatcher_id,
     is_closed      |-> payload.is_closed,
     filters        |-> payload.filters,
     filters_string |-> filters_data_to_string(payload)]

\* create: what it raises before dal.create, or Ok with the id of the new row
create_response(payload) ==
    IF ~check_if_exists(payload.dispatcher_id)
    THEN Raise("EntityDoesNotExist", "Dispatcher does not exist.")
    ELSE LET input_data == create_input_data(payload)
             search_sessions == get_by_filters(input_data.dispatcher_id,
                                               input_data.filters_string)
         IN IF search_sessions # <<>> /\ active_search_sessions(search_sessions) # <<>>
            THEN Raise("HTTPException(400)",
                       "A session with these filters has already been created.")
            ELSE Ok(Len(sessions) + 1)

\* create: POST /search_sessions/
create(payload) ==
    LET response == create_response(payload)
    IN /\ reqs' = reqs
       /\ IF response.error # ""
          THEN Reject("create", 0, response)
          ELSE /\ Len(sessions) < MaxSessions
               /\ sessions' = dal_create(create_input_data(payload))
               /\ Respond("create", 0, response)
               /\ UNCHANGED <<propositions, rels, events, rel_events>>

\* add_propositions: what it raises before it writes
add_propositions_response(search_session_id, payload) ==
    IF ~exist(search_session_id)
    THEN Raise("EntityDoesNotExist", "Search session does not exist.")
    ELSE IF is_session_closed(search_session_id)
    THEN Raise("HTTPException(400)", "Sessions is closed.")
    ELSE Ok(search_session_id)

\* add_propositions: POST /search_sessions/{search_session_id}/propositions/
add_propositions(search_session_id, payload) ==
    LET response == add_propositions_response(search_session_id, payload)
        existed == existed_propositions(payload.propositions)
        created == from_list(new_propositions(payload.propositions, existed))
        created_ids == [k \in 1..Len(created) |-> Len(propositions) + k]
    IN /\ reqs' = reqs
       /\ IF response.error # ""
          THEN Reject("add_propositions", search_session_id, response)
          ELSE /\ Len(propositions) + Len(created) <= MaxPropositions
               /\ sessions' = update_by_id(search_session_id, payload)
               /\ propositions' = propositions \o created
               /\ rels' = rels
                          \o link_rows(search_session_id,
                                       existed_to_link(search_session_id, existed))
                          \o link_rows(search_session_id, created_ids)
               /\ Respond("add_propositions", search_session_id, response)
               /\ UNCHANGED <<events, rel_events>>

\* the relation selected without the where clause on search_session_id
search_sessions_rel_any_session(search_session_id, proposition_id) ==
    LET ids == { r \in DOMAIN rels : rels[r].proposition_id = proposition_id }
    IN IF ids = {} THEN <<>> ELSE <<CHOOSE r \in ids : \A q \in ids : r <= q>>

\* the relation of the proposition with the search session: <<id>> or <<>>
search_sessions_rel(search_session_id, proposition_id) ==
    LET ids == { r \in DOMAIN rels :
                   /\ rels[r].search_session_id = search_session_id
                   /\ rels[r].proposition_id = proposition_id }
    IN IF ids = {} THEN <<>> ELSE <<CHOOSE r \in ids : \A q \in ids : r <= q>>

\* search_sessions_rel.events: the ids of the events a relation carries
events_of_rel(rel_id) ==
    { rel_events[x].event_id :
        x \in { y \in DOMAIN rel_events :
                  rel_events[y].search_sessions_propositions_id = rel_id } }

\* the contracted event never added to the relation
add_event_relation_never(rel_id, event_id) == rel_events

\* the SearchSessionsPropositionsEvents row added unless the relation carries
\* the event already
add_event_relation(rel_id, event_id) ==
    IF event_id \notin events_of_rel(rel_id)
    THEN Append(rel_events, [search_sessions_propositions_id |-> rel_id,
                             event_id |-> event_id])
    ELSE rel_events

\* payload.dict() without proposition_internal_id
close_data(payload) ==
    [is_successful |-> payload.is_successful,
     reason        |-> payload.reason,
     is_closed     |-> payload.is_closed]

\* close_session: what it may raise before it writes, or Ok; one response for
\* each Proposition row that single=True may hand back. rel is the relation the
\* contracted event is added to (0: none)
close_session_responses(search_session_id, payload) ==
    LET one(response, rel) == {[response |-> response, rel |-> rel]}
    IN IF ~get(search_session_id)
       THEN one(Raise("EntityDoesNotExist", "Search session does not exist."), 0)
       ELSE IF is_session_closed(search_session_id)
       THEN one(Raise("HTTPException(400)", "Sessions is closed."), 0)
       ELSE IF payload.is_successful /\ ~Truthy(payload.proposition_internal_id)
       THEN one(Raise("HTTPException(400)",
                      "A successful session needs even one accepted proposition."), 0)
       ELSE IF payload.is_successful
       THEN LET found == propositions_by_internal_id(payload.proposition_internal_id[1])
            IN IF found = {}
               THEN one(Raise("EntityDoesNotExist", "Proposition does not exist."), 0)
               ELSE UNION { LET rel == search_sessions_rel(search_session_id, proposition)
                            IN IF rel = <<>>
                               THEN one(Raise("EntityDoesNotExist",
                                   "This proposition is not a part of specified search session."), 0)
                               ELSE one(Ok(search_session_id), rel[1])
                            : proposition \in found }
       ELSE one(Ok(search_session_id), 0)

\* close_session: PATCH /search_sessions/{search_session_id}/
close_session(search_session_id, payload) ==
    \E o \in close_session_responses(search_session_id, payload) :
        LET event == event_by_name("contracted")
            event_id == IF event = <<>> THEN Len(events) + 1 ELSE event[1]
        IN /\ reqs' = reqs
           /\ IF o.response.error # ""
              THEN Reject("close_session", search_session_id, o.response)
              ELSE /\ IF o.rel # 0
                      THEN /\ events' = IF event = <<>>
                                        THEN Append(events, "contracted")
                                        ELSE events
                           /\ rel_events' = add_event_relation(o.rel, event_id)
                      ELSE UNCHANGED <<events, rel_events>>
                   /\ sessions' = update(search_session_id, close_data(payload))
                   /\ Respond("close_session", search_session_id, o.response)
                   /\ UNCHANGED <<propositions, rels>>

\* search_session.proposition_relations: the relations of the session, by id
proposition_relations(search_session_id) ==
    SeqOfSet({ r \in DOMAIN rels : rels[r].search_session_id = search_session_id })

RECURSIVE event_num(_, _)
\* the loop over proposition_relations_ids for one of the three events: the rows
\* of each relation id with the event's id are counted when the event exists
event_num(proposition_relations_ids, event) ==
    IF proposition_relations_ids = <<>> THEN 0
    ELSE (IF event # <<>>
          THEN Len(get_by_list_of_parameters(Head(proposition_relations_ids), event[1]))
          ELSE 0)
         + event_num(Tail(proposition_relations_ids), event)

\* get_details with the call events counted by the id of the interested event
get_details_response_call_as_interested(search_session_id) ==
    IF ~get(search_session_id)
    THEN Raise("EntityDoesNotExist", "Search session not found.")
    ELSE LET expanded_event == event_by_name("expanded")
             interested_event == event_by_name("interested")
             call_event == event_by_name("call")
             proposition_relations_ids == proposition_relations(search_session_id)
         IN Ok([expanded_event_num   |-> event_num(proposition_relations_ids, expanded_event),
                interested_event_num |-> event_num(proposition_relations_ids, interested_event),
                call_event_num       |-> event_num(proposition_relations_ids,
                                                   IF call_event # <<>>
                                                   THEN interested_event ELSE <<>>)])

\* get_details: what it raises, or Ok with the three numbers it sets on the
\* session it returns
get_details_response(search_session_id) ==
    IF ~get(search_session_id)
    THEN Raise("EntityDoesNotExist", "Search session not found.")
    ELSE LET expanded_event == event_by_name("expanded")
             interested_event == event_by_name("interested")
             call_event == event_by_name("call")
             proposition_relations_ids == proposition_relations(search_session_id)
         IN Ok([expanded_event_num   |-> event_num(proposition_relations_ids, expanded_event),
                interested_event_num |-> event_num(proposition_relations_ids, interested_event),
                call_event_num       |-> event_num(proposition_relations_ids, call_event)])

\* get_details: GET /search_sessions/{search_session_id}/details/ (the numbers
\* are attributes of the object returned, not columns: nothing is written)
get_details(search_session_id) ==
    /\ Respond("get_details", search_session_id, get_details_response(search_session_id))
    /\ UNCHANGED <<db, reqs>>

\* ------------------------------------------------------------- app.events
\* an interaction with a proposition of a session is recorded: the Event of
\* that name, added when there is none, is attached to the relation
EventNames == {"expanded", "interested", "call"}

record_event(rel_id, name) ==
    LET event == event_by_name(name)
        event_id == IF event = <<>> THEN Len(events) + 1 ELSE event[1]
    IN /\ rel_id \in DOMAIN rels
       /\ Len(rel_events) < MaxRelEvents
       /\ events' = IF event = <<>> THEN Append(events, name) ELSE events
       /\ rel_events' = Append(rel_events,
                               [search_sessions_propositions_id |-> rel_id,
                                event_id |-> event_id])
       /\ Respond("record_event", 0, Ok(0))
       /\ UNCHANGED <<sessions, propositions, rels, reqs>>

\* --------------------------------------------------------- request payloads
\* dispatcher_id: 0 (falsy) and 3 name no dispatcher
DispatcherIds == {0, 1, 2, 3}

\* FiltersRequest (the scalar filter fields are held fixed): the first two differ
\* in the order of their locations only
FiltersInputs ==
    { [locations |-> <<LocA, LocB>>],
      [locations |-> <<LocB, LocA>>],
      [locations |-> <<LocB>>] }

CheckPayloads == [dispatcher_id : DispatcherIds, filters : FiltersInputs]

CreatePayloads ==
    [dispatcher_id : DispatcherIds, is_closed : BOOLEAN, filters : FiltersInputs]

\* internal ids a PropositionRequest may carry
InternalIds == {1, 2}

\* payload.propositions, by internal_id: lists of up to two, repeats included
PropositionLists ==
    {<<>>} \cup { <<a>> : a \in InternalIds }
           \cup { <<a, b>> : a \in InternalIds, b \in InternalIds }

AddPayloads == [propositions : PropositionLists, extra_load : BOOLEAN]

\* proposition_internal_id: int | None (0 is an int that is falsy; 3 is never
\* the internal_id of a proposition)
OptInternalIds == {<<>>, <<0>>, <<1>>, <<2>>, <<3>>}

\* is_successful, proposition_internal_id, reason, is_closed
ClosePayloads ==
    [is_successful : BOOLEAN, proposition_internal_id : OptInternalIds,
     reason : {<<>>, <<"found">>}, is_closed : BOOLEAN]

\* path parameters: the ids of the rows and one past them
SessionIds == 1..(Len(sessions) + 1)

\* ------------------------------------------------------------ specifications
NoRequest == [op |-> "", sid |-> 0, error |-> "", detail |-> "", result |-> 0]

IdleClient == [pc |-> "idle", input_data |-> <<>>]

Init ==
    /\ sessions = <<>>
    /\ propositions = <<>>
    /\ rels = <<>>
    /\ events = <<>>
    /\ rel_events = <<>>
    /\ last = NoRequest
    /\ reqs = [c \in 1..NumClients |-> IdleClient]

\* Sessions of two dispatchers and two filter signatures, opened, looked up and
\* closed; propositions are not added (the payload lists are empty)
LifecycleAddPayloads == { p \in AddPayloads : p.propositions = <<>> }

LifecycleClosePayloads ==
    { p \in ClosePayloads : p.proposition_internal_id = <<>> /\ p.reason = <<>> }

Next ==
    \/ \E payload \in CheckPayloads : check(payload)
    \/ \E payload \in CreatePayloads : create(payload)
    \/ \E sid \in SessionIds, payload \in LifecycleAddPayloads :
          add_propositions(sid, payload)
    \/ \E sid \in SessionIds, payload \in LifecycleClosePayloads :
          close_session(sid, payload)

\* every request is served atomically, one after the other
Spec == Init /\ [][Next]_vars

\* Sessions of one dispatcher and one filter signature with their propositions
\* and events: one proposition internal id; 3 names no proposition
CloseCreatePayloads ==
    { p \in CreatePayloads : p.dispatcher_id = 1 /\ p.filters.locations = <<LocB>> }

CloseAddPayloads ==
    { p \in AddPayloads : p.extra_load /\ p.propositions \in {<<>>, <<1>>, <<1, 1>>} }

CloseClosePayloads ==
    { p \in ClosePayloads :
        p.reason # <<>> /\ p.proposition_internal_id \in {<<>>, <<0>>, <<1>>, <<3>>} }

CloseNext ==
    \/ \E payload \in CloseCreatePayloads : create(payload)
    \/ \E sid \in SessionIds, payload \in CloseAddPayloads :
          add_propositions(sid, payload)
    \/ \E sid \in SessionIds, payload \in CloseClosePayloads :
          close_session(sid, payload)

CloseSpec == Init /\ [][CloseNext]_vars

\* Sessions of one dispatcher and two filter signatures to which propositions of
\* two internal ids are added; a session is closed as not successful
LinkCreatePayloads ==
    { p \in CreatePayloads : p.dispatcher_id = 1 /\ ~p.is_closed }

LinkAddPayloads ==
    { p \in AddPayloads :
        p.extra_load /\ p.propositions \in {<<>>, <<1>>, <<2>>, <<1, 1>>, <<1, 2>>} }

LinkClosePayloads ==
    { p \in LifecycleClosePayloads : ~p.is_successful /\ p.is_closed }

LinkNext ==
    \/ \E payload \in LinkCreatePayloads : create(payload)
    \/ \E sid \in SessionIds, payload \in LinkAddPayloads :
          add_propositions(sid, payload)
    \/ \E sid \in SessionIds, payload \in LinkClosePayloads :
          close_session(sid, payload)

LinkSpec == Init /\ [][LinkNext]_vars

\* ------------------------------------------------ create, step by step
\* Each create request runs in a database session of its own; the awaits of the
\* handler are the points where another request may run. A row a request adds
\* is taken to be visible to the others at once (the earliest they can see it).
ConcCreatePayloads == { p \in CreatePayloads : p.dispatcher_id \in {1, 3} }

\* await dal.check_if_exists(...): an unknown dispatcher ends the request
create_check_if_exists(c, payload) ==
    /\ reqs[c].pc = "idle"
    /\ reqs' = [reqs EXCEPT ![c] =
                  IF check_if_exists(payload.dispatcher_id)
                  THEN [pc |-> "get_by_filters",
                        input_data |-> create_input_data(payload)]
                  ELSE IdleClient]
    /\ UNCHANGED <<db, last>>

\* await dal.get_by_filters(...), then the test for an active session
create_get_by_filters(c) ==
    /\ reqs[c].pc = "get_by_filters"
    /\ LET search_sessions == get_by_filters(reqs[c].input_data.dispatcher_id,
                                             reqs[c].input_data.filters_string)
       IN reqs' = [reqs EXCEPT ![c] =
                     IF search_sessions # <<>>
                        /\ active_search_sessions(search_sessions) # <<>>
                     THEN IdleClient
                     ELSE [@ EXCEPT !.pc = "dal.create"]]
    /\ UNCHANGED <<db, last>>

\* await dal.create(data=input_data)
create_dal_create(c) ==
    /\ reqs[c].pc = "dal.create"
    /\ Len(sessions) < MaxSessions
    /\ sessions' = dal_create(reqs[c].input_data)
    /\ reqs' = [reqs EXCEPT ![c] = IdleClient]
    /\ UNCHANGED <<propositions, rels, events, rel_events, last>>

ConcNext ==
    \/ \E c \in 1..NumClients, payload \in ConcCreatePayloads :
          create_check_if_exists(c, payload)
    \/ \E c \in 1..NumClients : create_get_by_filters(c)
    \/ \E c \in 1..NumClients : create_dal_create(c)
    \/ \E sid \in SessionIds, payload \in LinkClosePayloads :
          close_session(sid, payload)

ConcSpec == Init /\ [][ConcNext]_vars

\* ------------------------------------------------ filter signatures
\* Sessions of one dispatcher created, looked up and closed with locations lists
\* of up to two locations, two of which have the same address and scope
SignFiltersInputs ==
    { [locations |-> l] :
        l \in {<<>>} \cup { <<a>> : a \in {LocA, LocB, LocC} }
                     \cup { <<a, b>> : a \in {LocA, LocB, LocC}, b \in {LocA, LocB, LocC} } }

SignCheckPayloads == [dispatcher_id : {1}, filters : SignFiltersInputs]

SignCreatePayloads ==
    [dispatcher_id : {1}, is_closed : BOOLEAN, filters : SignFiltersInputs]

SignNext ==
    \/ \E payload \in SignCheckPayloads : check(payload)
    \/ \E payload \in SignCreatePayloads : create(payload)
    \/ \E sid \in SessionIds, payload \in LinkClosePayloads :
          close_session(sid, payload)

SignSpec == Init /\ [][SignNext]_vars

\* ------------------------------------------------ session details
\* Sessions of one dispatcher and two filter signatures with propositions whose
\* events are recorded; a session is closed as successful (a contracted event)
DetailsCreatePayloads ==
    { p \in LinkCreatePayloads : p.filters.locations \in {<<LocB>>} }

DetailsAddPayloads ==
    { p \in AddPayloads : p.extra_load /\ p.propositions = <<1, 2>> }

DetailsClosePayloads ==
    { p \in ClosePayloads :
        /\ p.is_successful /\ p.is_closed
        /\ p.proposition_internal_id = <<1>> /\ p.reason = <<>> }

DetailsNext ==
    \/ \E payload \in DetailsCreatePayloads : create(payload)
    \/ \E sid \in SessionIds, payload \in DetailsAddPayloads :
          add_propositions(sid, payload)
    \/ \E sid \in SessionIds, payload \in DetailsClosePayloads :
          close_session(sid, payload)
    \/ \E rel_id \in DOMAIN rels, name \in EventNames : record_event(rel_id, name)
    \/ \E sid \in SessionIds : get_details(sid)

DetailsSpec == Init /\ [][DetailsNext]_vars

\* ------------------------------------------------------------------ claims
SameFilters(i, j) ==
    /\ sessions[i].dispatcher_id = sessions[j].dispatcher_id
    /\ sessions[i].filters_string = sessions[j].filters_string

\* the propositions linked to a session, one entry per join-table row
LinkedPropositions(tab, s) ==
    SelectSeq(tab, LAMBDA row : row.search_session_id = s)

\* C1: whatever create, add_propositions and close_session requests were served
\* one after the other, no dispatcher_id and filters_string have two sessions
\* that are not closed.
C1_OneActivePerFilters ==
    \A i \in DOMAIN sessions, j \in DOMAIN sessions :
        (SameFilters(i, j) /\ ~sessions[i].is_closed /\ ~sessions[j].is_closed)
            => i = j

\* a second session of the same dispatcher and filters was created beside a
\* closed one
C1_Witness ==
    \E i \in DOMAIN sessions, j \in DOMAIN sessions :
        /\ i < j
        /\ SameFilters(i, j)
        /\ sessions[i].is_closed
        /\ ~sessions[j].is_closed
        /\ last.op = "create" /\ last.result = j

ContractedRelations(s) ==
    { r \in DOMAIN rels :
        /\ rels[r].search_session_id = s
        /\ \E e \in events_of_rel(r) : events[e] = "contracted" }

\* C2: a session with is_successful = true has a proposition relation of its own
\* that carries the contracted event.
C2_SuccessfulHasContracted ==
    \A s \in DOMAIN sessions :
        sessions[s].is_successful => ContractedRelations(s) # {}

C2_Witness ==
    /\ last.op = "close_session" /\ last.error = ""
    /\ sessions[last.sid].is_successful
    /\ ContractedRelations(last.sid) # {}

\* the cases of C3 for a close_session request with is_successful = true, by the
\* internal_id it names (<<>>: none)
C3_NoProposition(payload) ==
    /\ payload.proposition_internal_id # <<>>
    /\ \A p \in DOMAIN propositions :
          propositions[p] # payload.proposition_internal_id[1]

C3_NotLinked(sid, payload) ==
    /\ payload.proposition_internal_id # <<>>
    /\ \E p \in DOMAIN propositions :
          propositions[p] = payload.proposition_internal_id[1]
    /\ \A r \in DOMAIN rels :
          rels[r].search_session_id = sid
              => propositions[rels[r].proposition_id]
                     # payload.proposition_internal_id[1]

OpenSessions == { s \in DOMAIN sessions : ~sessions[s].is_closed }

\* C3 as stated: on an open session, close_session with is_successful = true is
\* refused with 400 when proposition_internal_id is missing, and as not found
\* when it names no Proposition or one that is not linked to the session.
C3_AsStated ==
    \A sid \in OpenSessions, payload \in ClosePayloads :
        payload.is_successful =>
            \A o \in close_session_responses(sid, payload) :
                /\ payload.proposition_internal_id = <<>>
                      => o.response.error = "HTTPException(400)"
                /\ (C3_NoProposition(payload) \/ C3_NotLinked(sid, payload))
                      => o.response.error = "EntityDoesNotExist"

C3_Rejected ==
    \A sid \in SessionIds, payload \in ClosePayloads :
        (payload.is_successful
            /\ (payload.proposition_internal_id = <<>>
                    \/ C3_NoProposition(payload) \/ C3_NotLinked(sid, payload)))
        => \A o \in close_session_responses(sid, payload) :
              /\ o.response.error # ""
              /\ (sid \in OpenSessions /\ ~Truthy(payload.proposition_internal_id))
                    => o.response.error = "HTTPException(400)"
              /\ (sid \in OpenSessions /\ Truthy(payload.proposition_internal_id))
                    => o.response.error = "EntityDoesNotExist"

C3_Frame ==
    (last'.op = "close_session" /\ last'.error # "")
        => UNCHANGED <<sessions, events, rel_events>>

\* C3, amended: close_session with is_successful = true is answered with an
\* error when proposition_internal_id is missing, names no Proposition or names
\* one that is not linked to the session; on an open session the error is 400
\* when the id is missing or 0 and not found otherwise; and a close_session
\* answered with an error leaves the sessions, the events and the relations'
\* events as they were.
C3_SuccessNeedsLinkedProposition == [](C3_Rejected) /\ [][C3_Frame]_vars

\* a successful close naming a proposition of another session was refused
C3_Witness ==
    /\ last.op = "close_session"
    /\ last.detail = "This proposition is not a part of specified search session."
    /\ ~sessions[last.sid].is_closed
    /\ ~sessions[last.sid].is_successful

\* C4: a close_session that returns without error leaves the session closed.
C4_CloseCloses ==
    (last.op = "close_session" /\ last.error = "")
        => sessions[last.sid].is_closed

C5_Rejected ==
    \A s \in DOMAIN sessions :
        sessions[s].is_closed =>
            /\ \A payload \in AddPayloads :
                  add_propositions_response(s, payload)
                      = Raise("HTTPException(400)", "Sessions is closed.")
            /\ \A payload \in ClosePayloads :
                  \A o \in close_session_responses(s, payload) :
                      o.response = Raise("HTTPException(400)", "Sessions is closed.")

C5_Frame ==
    \A s \in DOMAIN sessions :
        sessions[s].is_closed =>
            /\ s \in DOMAIN sessions'
            /\ sessions'[s] = sessions[s]
            /\ LinkedPropositions(rels', s) = LinkedPropositions(rels, s)

\* C5: a closed session answers every add_propositions and close_session with
\* 400 'Sessions is closed.', and no request changes its columns or its linked
\* propositions.
C5_ClosedIsAbsorbing == [](C5_Rejected) /\ [][C5_Frame]_vars

\* a request to a closed session was refused, its columns differing from what
\* the requests of the specification carry
C5_Witness ==
    /\ last.op \in {"add_propositions", "close_session"}
    /\ last.detail = "Sessions is closed."
    /\ sessions[last.sid].is_closed
    /\ ~sessions[last.sid].extra_load
    /\ sessions[last.sid].reason = <<>>

C6_NoDuplicateLinks ==
    \A r1 \in DOMAIN rels, r2 \in DOMAIN rels : rels[r1] = rels[r2] => r1 = r2

\* a step that is a successful add_propositions(sid, payload), for any payload
\* it may be, ends with the payload's internal ids linked to the session
C6_Linked ==
    (last'.op = "add_propositions" /\ last'.error = "") =>
        \A payload \in AddPayloads :
            add_propositions(last'.sid, payload)
                => \A i \in Range(payload.propositions) :
                      \E r \in DOMAIN rels' :
                          /\ rels'[r].search_session_id = last'.sid
                          /\ propositions'[rels'[r].proposition_id] = i

\* C6: after add_propositions succeeds, every internal_id of the payload is
\* linked to the session, and no (search_session, proposition) pair has two
\* join-table rows.
C6_LinkedOnce == [](C6_NoDuplicateLinks) /\ [][C6_Linked]_vars

\* add_propositions linked a proposition that another session is linked to, and
\* the session had been given propositions before
C6_Witness ==
    /\ last.op = "add_propositions" /\ last.error = ""
    /\ \E r1 \in DOMAIN rels, r2 \in DOMAIN rels, r3 \in DOMAIN rels :
          /\ rels[r1].search_session_id = last.sid
          /\ rels[r2].search_session_id # last.sid
          /\ rels[r2].proposition_id = rels[r1].proposition_id
          /\ r2 < r1
          /\ rels[r3].search_session_id = last.sid
          /\ r3 < r2

ActiveMatches(payload) ==
    { s \in DOMAIN sessions :
        /\ sessions[s].dispatcher_id = payload.dispatcher_id
        /\ sessions[s].filters_string = filters_data_to_string(payload)
        /\ ~sessions[s].is_closed }

C7_Result ==
    \A payload \in CheckPayloads :
        LET response == check_response(payload)
        IN IF payload.dispatcher_id \notin Dispatchers
           THEN response = Raise("EntityDoesNotExist", "Dispatcher does not exist.")
           ELSE IF ActiveMatches(payload) = {}
           THEN response = Raise("EntityDoesNotExist", "Session does not exist.")
           ELSE response.error = "" /\ response.result \in ActiveMatches(payload)

C7_Frame == last'.op = "check" => UNCHANGED db

\* C7: check returns a non-closed session of the payload's dispatcher and
\* filter signature when there is one, raises 'Session does not exist.' when
\* there is none, 'Dispatcher does not exist.' for an unknown dispatcher, and
\* changes no stored record.
C7_CheckFindsActive == [](C7_Result) /\ [][C7_Frame]_vars

\* check returned a session while another session had the same filters
C7_Witness ==
    /\ last.op = "check" /\ last.error = "" /\ last.result \in DOMAIN sessions
    /\ \E i \in DOMAIN sessions :
          /\ i # last.result
          /\ sessions[i].filters_string = sessions[last.result].filters_string

C8_Response ==
    \A payload \in CreatePayloads :
        payload.dispatcher_id \in Dispatchers =>
            IF ActiveMatches(payload) # {}
            THEN create_response(payload)
                     = Raise("HTTPException(400)",
                             "A session with these filters has already been created.")
            ELSE create_response(payload).error = ""

C8_Frame ==
    last'.op = "create" =>
        IF last'.error # ""
        THEN UNCHANGED db
        ELSE /\ Len(sessions') = Len(sessions) + 1
             /\ SubSeq(sessions', 1, Len(sessions)) = sessions
             /\ UNCHANGED <<propositions, rels, events, rel_events>>

\* C8: create is refused with 400 'A session with these filters has already been
\* created.' and adds no session while the dispatcher has a non-closed session
\* of these filters; when it has none, closed ones or not, create succeeds and
\* adds exactly one session.
C8_ClosedSessionsDoNotBlock == [](C8_Response) /\ [][C8_Frame]_vars

\* the session was created although a closed one has its dispatcher and filters
C8_Witness ==
    /\ last.op = "create" /\ last.error = "" /\ last.result \in DOMAIN sessions
    /\ ~sessions[last.result].is_closed
    /\ \E i \in DOMAIN sessions :
          /\ i < last.result
          /\ SameFilters(i, last.result)
          /\ sessions[i].is_closed

\* C9: with the steps of concurrent create requests interleaved, no dispatcher
\* and filters have two sessions that are not closed.
C9_OneActivePerFiltersInterleaved ==
    \A i \in DOMAIN sessions :
        sessions[i].is_closed
        \/ Cardinality({ j \in DOMAIN sessions :
                           SameFilters(i, j) /\ ~sessions[j].is_closed }) = 1

\* C10: no internal_id has two Proposition rows.
C10_OnePropositionPerInternalId ==
    \A p \in DOMAIN propositions, q \in DOMAIN propositions :
        propositions[p] = propositions[q] => p = q

\* s and t hold the same elements the same number of times
IsPermutation(s, t) ==
    /\ Len(s) = Len(t)
    /\ \A x \in Range(s) \cup Range(t) :
          Cardinality({ i \in DOMAIN s : s[i] = x })
              = Cardinality({ i \in DOMAIN t : t[i] = x })

\* C12: the signature create stored for a session is the signature of every
\* payload whose locations are those of the session's filters in any order
\* (filters_string holds the locations of the payload it was made from, sorted).
C12_SignatureIgnoresOrder ==
    \A s \in DOMAIN sessions, payload \in SignCheckPayloads :
        IsPermutation(payload.filters.locations, sessions[s].filters_string.locations)
            => filters_data_to_string(payload) = sessions[s].filters_string

\* the SearchSessionsPropositionsEvents rows of the relations of session s whose
\* event has the given name
EventRows(s, name) ==
    { x \in DOMAIN rel_events :
        /\ rels[rel_events[x].search_sessions_propositions_id].search_session_id = s
        /\ events[rel_events[x].event_id] = name }

C11_Numbers ==
    \A s \in DOMAIN sessions :
        LET response == get_details_response(s)
            none(name) ==
                \/ \A r \in DOMAIN rels : rels[r].search_session_id # s
                \/ \A e \in DOMAIN events : events[e] # name
        IN /\ response.error = ""
           /\ response.result.expanded_event_num = Cardinality(EventRows(s, "expanded"))
           /\ response.result.interested_event_num = Cardinality(EventRows(s, "interested"))
           /\ response.result.call_event_num = Cardinality(EventRows(s, "call"))
           /\ none("expanded") => response.result.expanded_event_num = 0
           /\ none("interested") => response.result.interested_event_num = 0
           /\ none("call") => response.result.call_event_num = 0

C11_Frame ==
    last'.op = "get_details" =>
        /\ UNCHANGED db
        /\ \/ last'.error = "" /\ last'.result = get_details_response(last'.sid).result
           \/ last'.error # "" /\ last'.sid \notin DOMAIN sessions

====
